---- MODULE Spec2Model ----
(***************************************************************************)
(* Model of the IMDb lookup of a Filmweb title (filmweb-api-rs).           *)
(*                                                                         *)
(* A Filmweb title carries a priority queue of alternate titles, scored    *)
(* from the label ("language") each one was listed under.  The lookup      *)
(* (Title::imdb_lookup, reached through set_imdb_data_with_lookup) pops    *)
(* the queue and queries IMDb twice per popped title: advanced_search      *)
(* (structured) and search (free text).  IMDb itself is the environment:   *)
(* every query may answer with any title of IMDbTitles or with an error.   *)
(*                                                                         *)
(* Besides the lookup (Spec, LiveSpec, TwinSpec, ConcSpec) the module has  *)
(* the functions the library offers next to it, each called on its own on  *)
(* every argument of a bounded set: the duration check (DurationSpec),     *)
(* score_title (ScoreSpec), the genre functions (GenreSpec), the parsing   *)
(* of a votebox (VoteboxSpec) and of an IMDb duration (DirtySpec), the     *)
(* query URL (QuerySpec), the page counts (PagesSpec) and the scraping and *)
(* export of a rated title (ScrapeSpec).                                   *)
(*                                                                         *)
(* Labels are modelled as sequences of words, so that str::contains        *)
(* becomes a contiguous sub-sequence test, and the texts the parsers read  *)
(* as sequences of characters.  Polish diacritics are transliterated       *)
(* ("glowny", "inny tytul", "Zostan").                                     *)
(***************************************************************************)
EXTENDS Integers, Sequences, FiniteSets, TLC

(***************************************************************************)
(* Bounds of the model.                                                    *)
(***************************************************************************)
\* Largest number of (title, language) rows scraped for one title.
MaxTitles == 3

\* Longest duration, in minutes, given to the duration check.
MaxDuration == 200

\* Largest number of words of a label given to score_title.
MaxWords == 3

\* Largest number of Filmweb genres of one title.
MaxGenres == 2

\* Largest number of white-space characters before / after a genre label.
MaxPad == 1

\* Largest number of characters of a year text given to parse_my_votebox.
MaxYearLen == 5

\* Largest number of characters of a duration text given to
\* parse_dirty_duration.
MaxDirtyLen == 6

(***************************************************************************)
(* Option / Result values.                                                 *)
(***************************************************************************)
None == <<>>
Some(v) == <<v>>
Unwrap(o) == o[1]

Ok(v) == <<"Ok", v>>
Err(e) == <<"Err", e>>

(***************************************************************************)
(* Year (lib.rs): OneYear(u16) | Range(u16, u16).                          *)
(***************************************************************************)
OneYear(y) == <<"OneYear", y>>
Range(s, e) == <<"Range", s, e>>

\* match self.year() { Year::OneYear(year) | Year::Range(year, _) => *year }
YearStart(y) == y[2]

\* impl Display for Year: OneYear(year) is written "{year}" and
\* Range(start, end) is written "{start}-{end}"; the text is given as the
\* numbers it holds, a '-' between each two.
fmt(y) == IF y[1] = "OneYear" THEN <<y[2]>> ELSE <<y[2], y[3]>>

(***************************************************************************)
(* AlternateTitle::score_title.                                            *)
(***************************************************************************)
\* str::contains at the granularity of words.
Contains(s, pat) ==
    \E i \in 1..(Len(s) - Len(pat) + 1) : SubSeq(s, i, i + Len(pat) - 1) = pat

\* The rules in another order: the home-locale rule is tried first.
score_title_polska_first(language) ==
    IF Contains(language, <<"Polska">>) THEN 5
    ELSE IF Contains(language, <<"USA">>) \/ Contains(language, <<"angielski">>) THEN 10
    ELSE IF Contains(language, <<"oryginalny">>) THEN 9
    ELSE IF Contains(language, <<"glowny">>) THEN 8
    ELSE IF Contains(language, <<"alternatywna", "pisownia">>) THEN 7
    ELSE IF Contains(language, <<"inny", "tytul">>) THEN 6
    ELSE 0

score_title(language) ==
    IF Contains(language, <<"USA">>) \/ Contains(language, <<"angielski">>) THEN 10
    ELSE IF Contains(language, <<"oryginalny">>) THEN 9
    ELSE IF Contains(language, <<"glowny">>) THEN 8
    ELSE IF Contains(language, <<"alternatywna", "pisownia">>) THEN 7
    ELSE IF Contains(language, <<"inny", "tytul">>) THEN 6
    ELSE IF Contains(language, <<"Polska">>) THEN 5
    ELSE 0

(***************************************************************************)
(* PriorityQueue<AlternateTitle, u8>: a set of entries, one per distinct   *)
(* item, each with its priority.                                           *)
(***************************************************************************)
AlternateTitle(language, title) == [language |-> language, title |-> title]

PQNew == {}

\* push: an item already present keeps one entry, with the new priority.
PQPush(q, item, priority) ==
    {e \in q : e.item # item} \cup {[item |-> item, priority |-> priority]}

\* pop that hands out any entry, whatever its priority.
PQPopAny(q) == IF q = {} THEN {None} ELSE {Some(e) : e \in q}

\* pop().unwrap_or_default(): an empty queue hands out a default entry.
PQPopOrDefault(q) ==
    IF q = {} THEN {Some([item |-> AlternateTitle(<<>>, ""), priority |-> 1])}
    ELSE {Some(e) : e \in {e \in q : \A f \in q : f.priority <= e.priority}}

\* pop: None on an empty queue, otherwise an entry of greatest priority
\* (the crate leaves the order among equal priorities open, so every
\* such entry is a possible answer).
PQPop(q) ==
    IF q = {} THEN {None}
    ELSE {Some(e) : e \in {e \in q : \A f \in q : f.priority <= e.priority}}

\* peek instead of pop: the entry stays in the queue.
PQKeep(q, e) == q

\* The queue once pop has handed out e.
PQRemove(q, e) == q \ {e}

\* fw_get_titles: zip the scraped titles with their labels, score each
\* label, push.  rows is the sequence of <<title, language>> of the page.
RECURSIVE PushRows(_, _)
PushRows(q, rows) ==
    IF rows = <<>> THEN q
    ELSE PushRows(PQPush(q, AlternateTitle(Head(rows)[2], Head(rows)[1]),
                         score_title(Head(rows)[2])),
                  Tail(rows))

fw_get_titles(rows) == PushRows(PQNew, rows)

(***************************************************************************)
(* FwRatedTitle::is_duration_similar.  The f64 products other * 1.15 etc.  *)
(* are compared as integers scaled by 100.                                 *)
(***************************************************************************)
ShortBound == 60

\* The band taken as soon as one of the two durations is short.
duration_band_either_short(fw_duration, duration) ==
    IF duration <= ShortBound \/ fw_duration <= ShortBound
    THEN <<duration * 150, duration * 75>>
    ELSE <<duration * 115, duration * 85>>

\* let (upper, lower) = if other_duration <= 60_f64 && fw_duration <= 60_u16
\*     { (other * 1.50, other * 0.75) } else { (other * 1.15, other * 0.85) }
duration_band(fw_duration, duration) ==
    IF duration <= ShortBound /\ fw_duration <= ShortBound
    THEN <<duration * 150, duration * 75>>
    ELSE <<duration * 115, duration * 85>>

\* A band check that also rejects a duration above the upper bound.
is_duration_similar_symmetric(self_duration, duration) ==
    IF self_duration = None THEN TRUE
    ELSE LET fw_duration == Unwrap(self_duration)
             upper == duration_band(fw_duration, duration)[1]
             lower == duration_band(fw_duration, duration)[2]
         IN  upper >= fw_duration * 100 /\ lower < fw_duration * 100

\* A missing duration taken as 0 minutes.
is_duration_similar_none_as_zero(self_duration, duration) ==
    LET fw_duration == IF self_duration = None THEN 0 ELSE Unwrap(self_duration)
        upper == duration_band(fw_duration, duration)[1]
        lower == duration_band(fw_duration, duration)[2]
    IN  ~(upper >= fw_duration * 100 /\ lower >= fw_duration * 100)

is_duration_similar(self_duration, duration) ==
    IF self_duration = None THEN TRUE
    ELSE LET fw_duration == Unwrap(self_duration)
             upper == duration_band(fw_duration, duration)[1]
             lower == duration_band(fw_duration, duration)[2]
         IN  ~(upper >= fw_duration * 100 /\ lower >= fw_duration * 100)

(***************************************************************************)
(* ClientPool (utils.rs): `amount` clones of one reqwest Client; every     *)
(* dereference of the pool hands out the client at a random index.         *)
(***************************************************************************)
\* ClientPool::new(fw_client.into_client(), 3)
PoolSize == 3

\* The indices fastrand::usize(..self.clients.len()) may return.
ClientPoolDeref == 0..(PoolSize - 1)

(***************************************************************************)
(* The inputs: scraped Filmweb titles and the answers of IMDb.             *)
(***************************************************************************)
\* The rows (title, language) a titles page may list: scores 10 (twice),
\* 8, 5 and 0 (twice).
Rows ==
    { <<"Stay", <<"USA">>>>,
      <<"Zostan", <<"USA">>>>,
      <<"Zostan", <<"Polska", "tytul", "glowny">>>>,
      <<"Zostan", <<"Polska">>>>,
      <<"Stay", <<"Niemcy">>>>,
      <<"Bleib", <<"Niemcy">>>> }

RowSeqs == UNION {[1..n -> Rows] : n \in 0..MaxTitles}

FwYears == {OneYear(2005), Range(2005, 2007)}

FwDurations == {None, Some(50)}

\* imdb::Title as far as the lookup and the duration check read it.
IMDbTitle(id, year, duration) == [id |-> id, year |-> year, duration |-> duration]

IMDbTitles ==
    { IMDbTitle("tt0371257", OneYear(2005), 99),
      IMDbTitle("tt0000002", OneYear(2006), 45),
      IMDbTitle("tt0000003", Range(2009, 2010), 120) }

\* What one IMDb query returns: a title, no results, a failed request.
IMDbResults ==
    {Ok(m) : m \in IMDbTitles} \cup {Err("NoResults"), Err("NetworkError")}

IsOk(r) == r[1] = "Ok"

(***************************************************************************)
(* Genres (filmweb.rs).  FilmwebGenre is the genre enumeration of Filmweb, *)
(* Genre the one shared with IMDb; an enumeration value is modelled by its *)
(* name.                                                                   *)
(***************************************************************************)
\* enum FilmwebGenre
FilmwebGenres ==
    {"Action", "AdultAnimation", "Adventure", "Animation", "Anime",
     "Biblical", "Biography", "Catastrophe", "Children", "Christmas",
     "Comedy", "Costume", "CourtroomDrama", "Crime", "DarkComedy",
     "Documentary", "Documented", "Drama", "Erotical", "FairyTale",
     "Family", "Fantasy", "FictionalizedDocumentary", "FilmNoir",
     "Gangster", "Grotesque", "Historical", "HistoricalDrama", "Horror",
     "MartialArt", "Melodrama", "Moral", "Musical", "Nature", "Poetic",
     "Political", "Propaganda", "Psychological", "Religious", "Romance",
     "RomanticComedy", "Satire", "SciFi", "Sensational", "Shiver", "Short",
     "Silent", "Sports", "Spy", "Surrealistic", "Thriller", "TrueCrime",
     "War", "MoralComedy", "Western", "XXX", "CriminalComedy", "Musically",
     "Youth"}

\* The arms of the match of Genre::try_from that end in Ok(Self::..): the
\* Filmweb genres of the arm and the Genre they give.
GenreArms ==
    { <<{"Action"}, "Action">>,
      <<{"AdultAnimation", "Animation", "Anime"}, "Animation">>,
      <<{"Adventure"}, "Adventure">>,
      <<{"Biblical", "Historical", "Religious", "HistoricalDrama"}, "History">>,
      <<{"Fantasy"}, "Fantasy">>,
      <<{"Children", "Youth", "Family", "Christmas", "FairyTale"}, "Family">>,
      <<{"Drama", "CourtroomDrama", "Melodrama", "Catastrophe",
          "Grotesque"}, "Drama">>,
      <<{"Horror"}, "Horror">>,
      <<{"Crime", "TrueCrime", "FilmNoir", "Gangster", "CriminalComedy"}, "Crime">>,
      <<{"Comedy", "DarkComedy", "MoralComedy", "RomanticComedy"}, "Comedy">>,
      <<{"Documentary", "Documented", "Biography", "Nature",
          "FictionalizedDocumentary"}, "Documentary">>,
      <<{"Musical", "Musically"}, "Music">>,
      <<{"Romance"}, "Romance">>,
      <<{"SciFi"}, "SciFi">>,
      <<{"Spy", "Surrealistic"}, "Mystery">>,
      <<{"Thriller", "Shiver", "Sensational"}, "Thriller">>,
      <<{"War"}, "War">>,
      <<{"Western"}, "Western">> }

\* The arm that ends in Err(ParseGenreError).
UnmappedGenres ==
    {"Costume", "XXX", "Short", "Erotical", "MartialArt", "Poetic",
     "Political", "Propaganda", "Moral", "Psychological", "Satire",
     "Silent", "Sports"}

\* A projection that keeps every Filmweb genre under its own name.
try_from_same_name(value) == Ok(value)

\* impl TryFrom<FilmwebGenre> for Genre
try_from(value) ==
    IF value \in UnmappedGenres THEN Err("ParseGenreError")
    ELSE Ok((CHOOSE arm \in GenreArms : value \in arm[1])[2])

\* Iterator::filter_map(f) with f yielding Option: the values of the Some
\* results, in order.
RECURSIVE filter_map_ok(_)
filter_map_ok(results) ==
    IF results = <<>> THEN <<>>
    ELSE IF IsOk(Head(results))
         THEN <<Head(results)[2]>> \o filter_map_ok(Tail(results))
         ELSE filter_map_ok(Tail(results))

\* collect::<Result<Vec<_>, _>>(): the first error instead of the list.
genres_or_error(fw_genres) ==
    LET results == [i \in 1..Len(fw_genres) |-> try_from(fw_genres[i])]
    IN  IF \E i \in 1..Len(results) : ~IsOk(results[i])
        THEN Err("ParseGenreError")
        ELSE filter_map_ok(results)

\* self.fw_genres.iter().filter_map(|g| Genre::try_from(*g).ok()).collect()
genres(fw_genres) ==
    filter_map_ok([i \in 1..Len(fw_genres) |-> try_from(fw_genres[i])])


(***************************************************************************)
(* Genre labels.  A String is modelled by its text in lower case, the case *)
(* it is written in and the number of white-space characters before and    *)
(* after it; a &'static str of the table is written in lower case without  *)
(* surrounding white space.                                                *)
(***************************************************************************)
String(lead, text, case, trail) ==
    [lead |-> lead, text |-> text, case |-> case, trail |-> trail]

Str(text) == String(0, text, "lower", 0)

\* str::trim
trim(s) == [s EXCEPT !.lead = 0, !.trail = 0]

\* str::to_lowercase
to_lowercase(s) == [s EXCEPT !.case = "lower"]

\* The entries of the HashMap STR_TO_GENRE.
STR_TO_GENRE_entries ==
    { <<"akcja", "Action">>,
      <<"animacja dla doroslych", "AdultAnimation">>,
      <<"animacja", "Animation">>,
      <<"anime", "Anime">>,
      <<"basn", "FairyTale">>,
      <<"biblijny", "Biblical">>,
      <<"biograficzny", "Biography">>,
      <<"czarna komedia", "DarkComedy">>,
      <<"dla dzieci", "Children">>,
      <<"dla mlodziezy", "Youth">>,
      <<"dokumentalizowany", "Documented">>,
      <<"dokumentalny", "Documentary">>,
      <<"dramat historyczny", "HistoricalDrama">>,
      <<"dramat obyczajowy", "Moral">>,
      <<"dramat sadowy", "CourtroomDrama">>,
      <<"dramat", "Drama">>,
      <<"dreszczowiec", "Shiver">>,
      <<"erotyczny", "Erotical">>,
      <<"fabularyzowany dok.", "FictionalizedDocumentary">>,
      <<"familijny", "Family">>,
      <<"fantasy", "Fantasy">>,
      <<"film-noir", "FilmNoir">>,
      <<"gangsterski", "Gangster">>,
      <<"groteska filmowa", "Grotesque">>,
      <<"historyczny", "Historical">>,
      <<"horror", "Horror">>,
      <<"katastroficzny", "Catastrophe">>,
      <<"komedia kryminalna", "CriminalComedy">>,
      <<"komedia obyczajowa", "MoralComedy">>,
      <<"komedia obycz.", "MoralComedy">>,
      <<"komedia romantyczna", "RomanticComedy">>,
      <<"komedia rom.", "RomanticComedy">>,
      <<"komedia", "Comedy">>,
      <<"kostiumowy", "Costume">>,
      <<"kryminal", "Crime">>,
      <<"krotkometrazowy", "Short">>,
      <<"melodramat", "Melodrama">>,
      <<"musical", "Musical">>,
      <<"muzyczny", "Musically">>,
      <<"niemy", "Silent">>,
      <<"obyczajowy", "Moral">>,
      <<"poetycki", "Poetic">>,
      <<"politiczny", "Political">>,
      <<"propagandowy", "Propaganda">>,
      <<"przygodowy", "Adventure">>,
      <<"przyrodniczy", "Nature">>,
      <<"psychologiczny", "Psychological">>,
      <<"religijny", "Religious">>,
      <<"romans", "Romance">>,
      <<"satyra", "Satire">>,
      <<"sci-fi", "SciFi">>,
      <<"sensacyjny", "Sensational">>,
      <<"sportowy", "Sports">>,
      <<"surrealistyczny", "Surrealistic">>,
      <<"szpiegowski", "Spy">>,
      <<"sztuki walki", "MartialArt">>,
      <<"thriller", "Thriller">>,
      <<"true crime", "TrueCrime">>,
      <<"western", "Western">>,
      <<"wojenny", "War">>,
      <<"xxx", "XXX">>,
      <<"swiateczny", "Christmas">> }

\* STR_TO_GENRE as a function of its keys.
STR_TO_GENRE ==
    [key \in {Str(e[1]) : e \in STR_TO_GENRE_entries} |->
        (CHOOSE e \in STR_TO_GENRE_entries : Str(e[1]) = key)[2]]

\* A function that returned v / that panicked.
Returns(v) == <<"Return", v>>
Panic == <<"Panic">>

\* A lookup that answers an unknown label with a default genre.
from_or_default(value) ==
    LET key == to_lowercase(trim(value))
    IN  IF key \in DOMAIN STR_TO_GENRE THEN Returns(STR_TO_GENRE[key])
        ELSE Returns("Action")

\* impl From<String> for FilmwebGenre:
\* STR_TO_GENRE[value.trim().to_lowercase().as_str()], where indexing a
\* HashMap by a key it does not hold panics.
from(value) ==
    LET key == to_lowercase(trim(value))
    IN  IF key \in DOMAIN STR_TO_GENRE THEN Returns(STR_TO_GENRE[key])
        ELSE Panic

(***************************************************************************)
(* State.  Every variable is a function of the Filmweb title it belongs    *)
(* to; DOMAIN pc is the set of titles.                                     *)
(***************************************************************************)
VARIABLES
    year,             \* FwTitle.year
    duration,         \* FwTitle.duration: Option<u16>
    alter_titles,     \* FwTitle.alter_titles: Option<PriorityQueue>
    imdb_data,        \* FwTitle.imdb_data: Option<imdb::Title>
    pc,               \* where the lookup of the title stands
    alternate_title,  \* the entry bound by the running `while let`
    result,           \* what set_imdb_data_with_lookup returned last
    calls,            \* the IMDb queries of the current / last lookup
    popped,           \* every entry pop has handed out so far
    pops,             \* entries popped by the current / last lookup
    queue0,           \* alter_titles when the current / last lookup began
    scraped,          \* alter_titles as fw_get_titles built it
    client,           \* the `client` argument of the running lookup
    input,            \* the argument of a function called on its own
    output            \* what that function returned

vars == <<year, duration, alter_titles, imdb_data, pc, alternate_title,
          result, calls, popped, pops, queue0, scraped, client, input, output>>

FwTitleIds == {1}

\* The titles ids as scraped, with years, durations and queues of the
\* given sets.
InitTitlesFrom(ids, years, durations, queues) ==
    /\ year \in [ids -> years]
    /\ duration \in [ids -> durations]
    /\ alter_titles \in [ids -> queues]
    /\ imdb_data = [t \in ids |-> None]
    /\ pc = [t \in ids |-> "idle"]
    /\ alternate_title = [t \in ids |-> None]
    /\ result = [t \in ids |-> None]
    /\ calls = [t \in ids |-> <<>>]
    /\ popped = [t \in ids |-> <<>>]
    /\ pops = [t \in ids |-> 0]
    /\ queue0 = alter_titles
    /\ scraped = alter_titles
    /\ client = [t \in ids |-> None]

\* lib.rs builds Some(alter_titles); filmweb.rs:299 stores
\* fw_get_titles(..).ok(), which is None when the page failed.
InitTitles(ids) ==
    InitTitlesFrom(ids, FwYears, FwDurations,
                   {None} \cup {Some(fw_get_titles(rows)) : rows \in RowSeqs})

\* No function is called on its own.
NoFunctionCall == input = None /\ output = None

Init == InitTitles(FwTitleIds) /\ NoFunctionCall

(***************************************************************************)
(* Title::imdb_lookup and set_imdb_data_with_lookup.                       *)
(***************************************************************************)
\* The arguments of imdb::advanced_search(&title, year, year, client).
AdvancedSearchQuery(alt, y) == <<alt.title, YearStart(y), YearStart(y)>>

\* The free-text search given the year as the title writes it.
SearchQueryDisplay(alt, y) == <<alt.title>> \o fmt(y)

\* The arguments of imdb::search(&title, year, client).
SearchQuery(alt, y) == <<alt.title, YearStart(y)>>

\* The loop head taking the free-text search first.
loop_head_search_first(o) ==
    IF o = None THEN "exit"
    ELSE IF Unwrap(o).priority = 0 THEN "exit"
    ELSE "search"

\* The loop head without its `break` on a score of 0.
loop_head_no_break(o) == IF o = None THEN "exit" ELSE "advanced_search"

\* while let Some((alternate_title, score)) = ...pop() { if score == 0 { break; }
loop_head(o) ==
    IF o = None THEN "exit"
    ELSE IF Unwrap(o).priority = 0 THEN "exit"
    ELSE "advanced_search"

\* The structured search without its `return`.
advanced_search_arm_no_return(r) == "search"

\* The structured search leaving the loop when it finds nothing.
advanced_search_arm_break(r) == IF IsOk(r) THEN "return" ELSE "exit"

\* if let Ok(imdb_title) = imdb::advanced_search(..) { return Ok(imdb_title); }
advanced_search_arm(r) == IF IsOk(r) THEN "return" ELSE "search"

\* The free-text search propagating a failed request with `?`.
search_arm_propagate(r) ==
    IF IsOk(r) \/ r = Err("NetworkError") THEN "return" ELSE "pop"

\* The free-text search giving up the whole lookup on its first failure.
search_arm_give_up(r) == IF IsOk(r) THEN "return" ELSE "exit"

\* The free-text search going back to the structured search of the same title.
search_arm_retry(r) == IF IsOk(r) THEN "return" ELSE "advanced_search"

\* if let Ok(imdb_title) = imdb::search(..) { return Ok(imdb_title); }
search_arm(r) == IF IsOk(r) THEN "return" ELSE "pop"

\* The value of imdb_lookup once the loop is left.
after_loop == Err("ZeroResults")

\* self.imdb_data = self.imdb_lookup(client).ok(): a failed lookup clears
\* the field.
assign_imdb_data_ok(old, r) == IF IsOk(r) THEN Some(r[2]) ELSE None

\* self.imdb_data = Some(self.imdb_lookup(client)?): the field after the
\* lookup returned r.
assign_imdb_data(old, r) == IF IsOk(r) THEN Some(r[2]) ELSE old

\* self.imdb_data = Some(self.imdb_lookup(client)?); Ok(()): the value
\* set_imdb_data_with_lookup returns after the lookup returned r.
lookup_result(r) == IF IsOk(r) THEN Ok(<<>>) ELSE r

\* imdb_lookup returns r to set_imdb_data_with_lookup, which returns.
Return(t, r) ==
    /\ imdb_data' = [imdb_data EXCEPT ![t] = assign_imdb_data(@, r)]
    /\ result' = [result EXCEPT ![t] = Some(lookup_result(r))]
    /\ pc' = [pc EXCEPT ![t] = "idle"]
    /\ client' = [client EXCEPT ![t] = None]

\* Control leaves a statement of the loop: `return` with the value r at
\* hand, the end of the loop, or the next statement.
Goto(t, arm, r) ==
    CASE arm = "return" -> Return(t, r)
      [] arm = "exit" -> Return(t, after_loop)
      [] OTHER -> /\ pc' = [pc EXCEPT ![t] = arm]
                  /\ UNCHANGED <<imdb_data, result, client>>

\* A caller starts set_imdb_data_with_lookup on title t, with a client
\* of the pool.
Call(t) ==
    /\ pc[t] = "idle"
    /\ \E i \in ClientPoolDeref : client' = [client EXCEPT ![t] = Some(i)]
    /\ pc' = [pc EXCEPT ![t] = "pop"]
    /\ result' = [result EXCEPT ![t] = None]
    /\ calls' = [calls EXCEPT ![t] = <<>>]
    /\ pops' = [pops EXCEPT ![t] = 0]
    /\ queue0' = [queue0 EXCEPT ![t] = alter_titles[t]]
    /\ alternate_title' = [alternate_title EXCEPT ![t] = None]
    /\ UNCHANGED <<year, duration, alter_titles, imdb_data, popped, scraped,
                   input, output>>

\* One queue shared by every title.
shared_alter_titles(t) == alter_titles[1]

\* self.alter_titles(): the queue of the title the lookup runs on.
self_alter_titles(t) == alter_titles[t]

\* The loop head: self.alter_titles().as_mut().unwrap().pop().
Pop(t) ==
    /\ pc[t] = "pop"
    /\ IF self_alter_titles(t) = None
       THEN \* unwrap() on None panics
            /\ pc' = [pc EXCEPT ![t] = "panicked"]
            /\ UNCHANGED <<alter_titles, imdb_data, alternate_title, result,
                           popped, pops, client>>
       ELSE \E o \in PQPop(Unwrap(self_alter_titles(t))) :
            /\ alter_titles' =
                  [alter_titles EXCEPT ![t] =
                      IF o = None THEN self_alter_titles(t)
                      ELSE Some(PQRemove(Unwrap(self_alter_titles(t)), Unwrap(o)))]
            /\ popped' =
                  [popped EXCEPT ![t] = IF o = None THEN @ ELSE Append(@, Unwrap(o))]
            /\ pops' = [pops EXCEPT ![t] = IF o = None THEN @ ELSE @ + 1]
            /\ alternate_title' = [alternate_title EXCEPT ![t] = o]
            /\ Goto(t, loop_head(o), after_loop)
    /\ UNCHANGED <<year, duration, calls, queue0, scraped, input, output>>

\* imdb::advanced_search(&alternate_title.title, year, year, client)
AdvancedSearch(t) ==
    /\ pc[t] = "advanced_search"
    /\ \E r \in IMDbResults :
          LET alt == Unwrap(alternate_title[t])
              call == [fn |-> "advanced_search", alt |-> alt,
                       query |-> AdvancedSearchQuery(alt.item, year[t]),
                       client |-> Unwrap(client[t]), ret |-> r]
          IN  /\ calls' = [calls EXCEPT ![t] = Append(@, call)]
              /\ Goto(t, advanced_search_arm(r), r)
    /\ UNCHANGED <<year, duration, alter_titles, alternate_title, popped, pops,
                   queue0, scraped, input, output>>

\* imdb::search(&alternate_title.title, year, client)
Search(t) ==
    /\ pc[t] = "search"
    /\ \E r \in IMDbResults :
          LET alt == Unwrap(alternate_title[t])
              call == [fn |-> "search", alt |-> alt,
                       query |-> SearchQuery(alt.item, year[t]),
                       client |-> Unwrap(client[t]), ret |-> r]
          IN  /\ calls' = [calls EXCEPT ![t] = Append(@, call)]
              /\ Goto(t, search_arm(r), r)
    /\ UNCHANGED <<year, duration, alter_titles, alternate_title, popped, pops,
                   queue0, scraped, input, output>>

\* imdb_data_owned: self.imdb_data.take()
imdb_data_owned(t) ==
    /\ pc[t] = "idle"
    /\ imdb_data[t] # None
    /\ imdb_data' = [imdb_data EXCEPT ![t] = None]
    /\ UNCHANGED <<year, duration, alter_titles, pc, alternate_title, result,
                   calls, popped, pops, queue0, scraped, client, input, output>>

\* One step of a running lookup.
Step(t) == Pop(t) \/ AdvancedSearch(t) \/ Search(t)

Next ==
    \/ \E t \in DOMAIN pc : Call(t)
    \/ \E t \in DOMAIN pc : Pop(t)
    \/ \E t \in DOMAIN pc : AdvancedSearch(t)
    \/ \E t \in DOMAIN pc : Search(t)
    \/ \E t \in DOMAIN pc : imdb_data_owned(t)

Spec == Init /\ [][Next]_vars

\* Every call into IMDb returns and the thread running a lookup keeps running.
LiveSpec == Spec /\ \A t \in FwTitleIds : WF_vars(Step(t))

(***************************************************************************)
(* Vocabulary of the properties.                                           *)
(***************************************************************************)
Running(t) == pc[t] \in {"pop", "advanced_search", "search"}

\* set_imdb_data_with_lookup has returned.
Returned(t) == pc[t] = "idle" /\ result[t] # None

\* ... with Ok(()): the title is resolved.
Resolved(t) == Returned(t) /\ IsOk(Unwrap(result[t]))

\* ... with Err(ZeroResults): the title is unresolved.
Unresolved(t) == Returned(t) /\ Unwrap(result[t]) = Err("ZeroResults")

Last(s) == s[Len(s)]

\* Entry e had a query of kind fn in the current / last lookup, without a match.
SearchedInVain(t, e, fn) ==
    \E i \in 1..Len(calls[t]) :
        calls[t][i].alt = e /\ calls[t][i].fn = fn /\ ~IsOk(calls[t][i].ret)

\* The Match Validator of the specification: the start years differ by at
\* most one and the durations are similar.
Validates(t, m) ==
    /\ YearStart(year[t]) - YearStart(m.year) \in -1..1
    /\ is_duration_similar(duration[t], m.duration)

(***************************************************************************)
(* Two runs of the lookup side by side: titles 1 and 2 are scraped alike,  *)
(* title 2 is looked up after title 1, pop breaks ties the same way, and   *)
(* IMDb answers the k-th query of title 2 as it answered the k-th query of *)
(* title 1, except that "no results" may have become a failed request.     *)
(* Year and duration play no part in the control flow of the lookup and    *)
(* are fixed here, as is the client of the first lookup.                   *)
(***************************************************************************)
TwinIds == {1, 2}

TwinInit ==
    /\ InitTitlesFrom(TwinIds, {OneYear(2005)}, {None},
                      {None} \cup {Some(fw_get_titles(rows)) : rows \in RowSeqs})
    /\ alter_titles[1] = alter_titles[2]
    /\ NoFunctionCall

\* r2 is the answer r1, or a failed request in place of "no results".
SameButError(r1, r2) ==
    r2 = r1 \/ (r1 = Err("NoResults") /\ r2 = Err("NetworkError"))

\* The lookup of title 1 is over.
FirstRunOver == Returned(1) \/ pc[1] = "panicked"

TwinNext ==
    \/ result[1] = None /\ Call(1) /\ client'[1] = Some(0)
    \/ Pop(1)
    \/ AdvancedSearch(1)
    \/ Search(1)
    \/ FirstRunOver /\ result[2] = None /\ Call(2)
    \/ /\ Pop(2)
       /\ \A k \in 1..Len(popped'[2]) :
             k <= Len(popped[1]) => popped'[2][k] = popped[1][k]
    \/ /\ AdvancedSearch(2) \/ Search(2)
       /\ LET k == Len(calls'[2])
          IN  k <= Len(calls[1]) => SameButError(calls[1][k].ret, calls'[2][k].ret)

TwinSpec == TwinInit /\ [][TwinNext]_vars

(***************************************************************************)
(* Lookups of distinct titles running concurrently.  Title 1 is looked up  *)
(* alone; afterwards titles 2 and 3 are looked up, each once, their steps  *)
(* interleaved in every order and each lookup with a client of its own     *)
(* choice.  Title 2 is scraped like title 1, its pops break ties as those  *)
(* of title 1 did and IMDb answers its k-th query as it answered the k-th  *)
(* query of title 1; title 3 is scraped from the other page and is         *)
(* otherwise unconstrained.  The client of title 1 is fixed.               *)
(***************************************************************************)
ConcIds == {1, 2, 3}

\* The pages the titles of the concurrent lookups were scraped from.
ConcRowSeqs ==
    { << <<"Stay", <<"USA">>>>, <<"Zostan", <<"Polska", "tytul", "glowny">>>> >>,
      << <<"Zostan", <<"USA">>>>, <<"Bleib", <<"Niemcy">>>> >> }

ConcInit ==
    /\ InitTitlesFrom(ConcIds, {OneYear(2005)}, {None},
                      {Some(fw_get_titles(rows)) : rows \in ConcRowSeqs})
    /\ alter_titles[1] = alter_titles[2]
    /\ alter_titles[3] # alter_titles[2]
    /\ NoFunctionCall

ConcNext ==
    \/ result[1] = None /\ Call(1) /\ client'[1] = Some(0)
    \/ Pop(1)
    \/ AdvancedSearch(1)
    \/ Search(1)
    \/ \E t \in {2, 3} : FirstRunOver /\ result[t] = None /\ Call(t)
    \/ /\ Pop(2)
       /\ \A k \in 1..Len(popped'[2]) :
             k <= Len(popped[1]) => popped'[2][k] = popped[1][k]
    \/ /\ AdvancedSearch(2) \/ Search(2)
       /\ LET k == Len(calls'[2])
          IN  k <= Len(calls[1]) => calls'[2][k].ret = calls[1][k].ret
    \/ Pop(3)
    \/ AdvancedSearch(3)
    \/ Search(3)

ConcSpec == ConcInit /\ [][ConcNext]_vars

(***************************************************************************)
(* FwRatedTitle::is_duration_similar called on its own: a rated title with *)
(* any duration, or none, is compared with any duration of another site.   *)
(***************************************************************************)
\* The state of the titles.
title_vars ==
    <<year, duration, alter_titles, imdb_data, pc, alternate_title, result,
      calls, popped, pops, queue0, scraped, client>>

DurationInit ==
    /\ InitTitlesFrom(FwTitleIds, {OneYear(2005)},
                      {None} \cup {Some(d) : d \in 0..MaxDuration}, {Some(PQNew)})
    /\ input \in 0..MaxDuration
    /\ output = None

\* title.is_duration_similar(duration)
IsDurationSimilar(t) ==
    /\ output = None
    /\ output' = Some(is_duration_similar(duration[t], input))
    /\ UNCHANGED <<title_vars, input>>

DurationNext == \E t \in DOMAIN pc : IsDurationSimilar(t)

DurationSpec == DurationInit /\ [][DurationNext]_vars

(***************************************************************************)
(* AlternateTitle::score_title called on its own, on any label of up to    *)
(* MaxWords words.                                                          *)
(***************************************************************************)
\* The words of a label: those the rules look for, a country no rule looks
\* for, and "Polska" in lower case.
LabelWords ==
    {"USA", "angielski", "oryginalny", "glowny", "alternatywna", "pisownia",
     "inny", "tytul", "Polska", "polska", "Niemcy"}

Labels == UNION {[1..n -> LabelWords] : n \in 0..MaxWords}

\* No title is involved.
NoTitles == InitTitlesFrom({}, {}, {}, {})

ScoreInit ==
    /\ NoTitles
    /\ input \in Labels
    /\ output = None

\* AlternateTitle::score_title(&language)
ScoreTitle ==
    /\ output = None
    /\ output' = Some(score_title(input))
    /\ UNCHANGED <<title_vars, input>>

ScoreNext == ScoreTitle

ScoreSpec == ScoreInit /\ [][ScoreNext]_vars

(***************************************************************************)
(* The genre functions called on their own: Genre::try_from on any Filmweb *)
(* genre, Title::genres on a title with any list of up to MaxGenres        *)
(* Filmweb genres, FilmwebGenre::from on any label.  input is the function *)
(* with its argument.                                                      *)
(***************************************************************************)
GenreLists == UNION {[1..n -> FilmwebGenres] : n \in 0..MaxGenres}

\* The texts of the labels: the keys of STR_TO_GENRE, "polityczny" (the
\* table has "politiczny"), a word that is no genre, "dla dzieci" with two
\* spaces, and the empty text.
LabelTexts ==
    {e[1] : e \in STR_TO_GENRE_entries}
        \cup {"polityczny", "fantastyka", "dla  dzieci", ""}

GenreLabels ==
    {String(lead, text, case, trail) :
        lead \in 0..MaxPad, text \in LabelTexts,
        case \in {"lower", "Capitalized", "UPPER"}, trail \in 0..MaxPad}

GenreInit ==
    /\ NoTitles
    /\ input \in {<<"try_from", value>> : value \in FilmwebGenres}
                 \cup {<<"genres", fw_genres>> : fw_genres \in GenreLists}
                 \cup {<<"from", value>> : value \in GenreLabels}
    /\ output = None

\* Genre::try_from(value)
TryFrom ==
    /\ input[1] = "try_from"
    /\ output = None
    /\ output' = Some(try_from(input[2]))
    /\ UNCHANGED <<title_vars, input>>

\* title.genres() on a title with fw_genres = input[2]: the OnceCell
\* `genres` is empty, it is set to the projected list and read back.  The
\* test of the cell and its set are taken as one step: the title is in the
\* hands of one thread.
Genres ==
    /\ input[1] = "genres"
    /\ output = None
    /\ output' = Some(genres(input[2]))
    /\ UNCHANGED <<title_vars, input>>

\* FilmwebGenre::from(value)
From ==
    /\ input[1] = "from"
    /\ output = None
    /\ output' = Some(from(input[2]))
    /\ UNCHANGED <<title_vars, input>>

GenreNext ==
    \/ TryFrom
    \/ Genres
    \/ From

GenreSpec == GenreInit /\ [][GenreNext]_vars

(***************************************************************************)
(* Texts read character by character: a text is the sequence of its        *)
(* characters.  The functions below are those of str the parsers call.     *)
(***************************************************************************)
Digits == {"0", "1", "2", "3", "4", "5", "6", "7", "8", "9"}

\* char::to_digit(10)
to_digit(c) ==
    CASE c = "0" -> 0 [] c = "1" -> 1 [] c = "2" -> 2 [] c = "3" -> 3
      [] c = "4" -> 4 [] c = "5" -> 5 [] c = "6" -> 6 [] c = "7" -> 7
      [] c = "8" -> 8 [] c = "9" -> 9

\* u16::MAX
U16Max == 65535

\* The number a sequence of decimal digits writes.
RECURSIVE Decimal(_)
Decimal(s) ==
    IF s = <<>> THEN 0
    ELSE Decimal(SubSeq(s, 1, Len(s) - 1)) * 10 + to_digit(s[Len(s)])

\* str::parse::<u16>(): an optional '+', then one decimal digit at least
\* and digits only, of a value up to u16::MAX; anything else is an error.
parse_u16(s) ==
    LET digits == IF s # <<>> /\ s[1] = "+" THEN Tail(s) ELSE s
    IN  IF digits = <<>> \/ \E i \in 1..Len(digits) : digits[i] \notin Digits
        THEN Err("ParseIntError")
        ELSE IF Decimal(digits) > U16Max THEN Err("ParseIntError")
        ELSE Ok(Decimal(digits))

\* str::trim_start(), on texts whose only white space is ' '.
RECURSIVE trim_start(_)
trim_start(s) ==
    IF s # <<>> /\ s[1] = " " THEN trim_start(Tail(s)) ELSE s

\* str::trim_end()
RECURSIVE trim_end(_)
trim_end(s) ==
    IF s # <<>> /\ s[Len(s)] = " " THEN trim_end(SubSeq(s, 1, Len(s) - 1)) ELSE s

\* str::trim() of a text of characters.
str_trim(s) == trim_end(trim_start(s))

\* str::contains(char)
contains_char(s, c) == \E i \in 1..Len(s) : s[i] = c

\* str::split(char).collect::<Vec<&str>>(): the pieces between the
\* occurrences of c, one piece more than there are occurrences.
RECURSIVE split(_, _)
split(s, c) ==
    IF ~contains_char(s, c) THEN <<s>>
    ELSE LET i == CHOOSE i \in 1..Len(s) :
                      s[i] = c /\ \A j \in 1..(i - 1) : s[j] # c
         IN  <<SubSeq(s, 1, i - 1)>> \o split(SubSeq(s, i + 1, Len(s)), c)

(***************************************************************************)
(* parse_my_votebox (filmweb/utils.rs) as far as the year and the duration *)
(* go.  The votebox is given by the text of its .preview__year element and *)
(* by what the request of the title page gives: the text of the            *)
(* data-duration attribute, or a failed request.  The id, the name, the    *)
(* genres and the alternate titles are taken to parse.                     *)
(***************************************************************************)
\* let year = { .. }: the year of the votebox, or the error the function
\* returns with.
parse_year(year_text) ==
    IF contains_char(year_text, "-")
    THEN LET years == split(str_trim(year_text), "-")
             year_start == parse_u16(str_trim(years[1]))
             year_end == parse_u16(str_trim(years[2]))
         IN  IF ~IsOk(year_start) THEN Err("InvalidId")
             ELSE Ok(Range(year_start[2],
                           IF IsOk(year_end) THEN year_end[2] ELSE year_start[2]))
    ELSE LET parsed == parse_u16(str_trim(year_text))
         IN  IF IsOk(parsed) THEN Ok(OneYear(parsed[2])) ELSE Err("InvalidYear")

\* An unparsable data-duration made a duration of 0.
parse_duration_or_zero(data_duration) ==
    LET parsed == parse_u16(data_duration)
    IN  IF IsOk(parsed) THEN Some(parsed[2]) ELSE Some(0)

\* let duration = { .. .parse::<u16>().map_or_else(|_| None, Some) }
parse_duration(data_duration) ==
    LET parsed == parse_u16(data_duration)
    IN  IF IsOk(parsed) THEN Some(parsed[2]) ELSE None

\* parse_my_votebox(votebox, client): Ok(ScrapedFilmwebTitleData), of which
\* the year and the duration are kept, or Err(FilmwebErrors).
parse_my_votebox(votebox) ==
    LET year_ == parse_year(votebox.year)
    IN  IF ~IsOk(year_) THEN year_
        ELSE IF ~IsOk(votebox.page) THEN Err("ReqwestError")
        ELSE Ok([year |-> year_[2], duration |-> parse_duration(votebox.page[2])])

\* The characters of the year texts.
YearChars == {"9", "-", " ", "x"}

\* The year texts: every text of up to MaxYearLen characters.
YearTexts == UNION {[1..n -> YearChars] : n \in 0..MaxYearLen}

\* The data-duration texts: a number, nothing, a number after a space, not
\* a number, a number above u16::MAX.
DurationTexts ==
    { <<"9", "9">>, <<>>, <<" ", "9">>, <<"x">>, <<"9", "9", "9", "9", "9">> }

Voteboxes ==
    [year : YearTexts,
     page : {Ok(d) : d \in DurationTexts} \cup {Err("ReqwestError")}]

VoteboxInit ==
    /\ NoTitles
    /\ input \in Voteboxes
    /\ output = None

\* parse_my_votebox(votebox, client)
ParseMyVotebox ==
    /\ output = None
    /\ output' = Some(parse_my_votebox(input))
    /\ UNCHANGED <<title_vars, input>>

VoteboxNext == ParseMyVotebox

VoteboxSpec == VoteboxInit /\ [][VoteboxNext]_vars

(***************************************************************************)
(* IMDb::is_dirty_duration_ok and IMDb::parse_dirty_duration (imdb.rs), on *)
(* the text of one list item of a title page.  Arithmetic on u16 that      *)
(* overflows panics in a build with overflow checks and wraps in a build   *)
(* without them: parse_dirty_duration gives the set of the outcomes the    *)
(* builds have.                                                            *)
(***************************************************************************)
\* matches!(c, 'h' | 'm' | ' ' | '0'..='9')
DirtyChars == {"h", "m", " "} \cup Digits

\* dirty_duration.len() < 20
DirtyLenLimit == 20

\* fn is_dirty_duration_ok(dirty_duration: &str) -> bool
is_dirty_duration_ok(dirty_duration) ==
    /\ \A i \in 1..Len(dirty_duration) : dirty_duration[i] \in DirtyChars
    /\ Len(dirty_duration) < DirtyLenLimit
    /\ ~(\A i \in 1..Len(dirty_duration) : dirty_duration[i] \in Digits)

\* str::split_once(char): the text before the first c and the text after
\* it, None without a c.
split_once(s, c) ==
    IF ~contains_char(s, c) THEN None
    ELSE LET i == CHOOSE i \in 1..Len(s) :
                      s[i] = c /\ \A j \in 1..(i - 1) : s[j] # c
         IN  Some(<<SubSeq(s, 1, i - 1), SubSeq(s, i + 1, Len(s))>>)

\* &s[..len - 1] with len = s.len(): the text without its last character;
\* on an empty text the subtraction overflows or the slice is out of
\* range, a panic in every build.
but_last(s) == IF s = <<>> THEN Panic ELSE Returns(SubSeq(s, 1, Len(s) - 1))

\* Ok(v) of a u16 expression of exact value v: v when it fits, otherwise a
\* panic (overflow checks) or the value wrapped at 2^16.
ok_u16(v) == IF v <= U16Max THEN {Ok(v)} ELSE {Panic, Ok(v % (U16Max + 1))}

\* Some('m') => vec![dirty_duration[..len - 1].parse::<u16>().expect(..) * 60]
minutes_arm(n) == n * 60

\* Some('h') => vec![dirty_duration[..len - 1].parse::<u16>().expect(..) * 60]
hours_arm(n) == n * 60

Irrecoverable == Err("IrrecoverableParseDurationError")

\* fn parse_dirty_duration(dirty_duration: &str, title_url: &str)
\*     -> Result<u16, IMDbScrapeError>
parse_dirty_duration(dirty_duration) ==
    LET duration_ == split_once(dirty_duration, " ")
    IN  IF duration_ # None /\ Unwrap(duration_)[2] # <<>>
        THEN LET hours == but_last(Unwrap(duration_)[1])
                 mins == but_last(Unwrap(duration_)[2])
             IN  IF hours = Panic THEN {Panic}
                 ELSE IF ~IsOk(parse_u16(hours[2])) THEN {Irrecoverable}
                 ELSE IF ~IsOk(parse_u16(mins[2])) THEN {Irrecoverable}
                 ELSE ok_u16(parse_u16(hours[2])[2] * 60 + parse_u16(mins[2])[2])
        ELSE IF duration_ # None
        THEN \* unreachable!()
             {Panic}
        ELSE IF dirty_duration = <<>> THEN {Panic}
        ELSE LET last == dirty_duration[Len(dirty_duration)]
                 number == parse_u16(but_last(dirty_duration)[2])
             IN  IF last \notin {"h", "m"} THEN {Irrecoverable}
                 ELSE IF ~IsOk(number)
                 THEN \* expect("IMDb ok")
                      {Panic}
                 ELSE IF last = "h" THEN ok_u16(hours_arm(number[2]))
                 ELSE ok_u16(minutes_arm(number[2]))

\* The characters of the duration texts.
DirtyDurationChars == {"h", "m", " ", "1", "2"}

\* The duration texts: every text of up to MaxDirtyLen characters.
DirtyDurations == UNION {[1..n -> DirtyDurationChars] : n \in 0..MaxDirtyLen}

DirtyInit ==
    /\ NoTitles
    /\ input \in DirtyDurations
    /\ output = None

\* parse_imdb_title_page: if Self::is_dirty_duration_ok(&duration_candidate)
\* { break duration_candidate; } and then
\* Self::parse_dirty_duration(&dirty_duration, &title_url)
ParseDirtyDuration ==
    /\ output = None
    /\ is_dirty_duration_ok(input)
    /\ \E o \in parse_dirty_duration(input) : output' = Some(o)
    /\ UNCHANGED <<title_vars, input>>

\* parse_imdb_title_page: a candidate that is not ok is passed over.
PassOverDirtyDuration ==
    /\ output = None
    /\ ~is_dirty_duration_ok(input)
    /\ output' = Some(<<"NotOk">>)
    /\ UNCHANGED <<title_vars, input>>

DirtyNext ==
    \/ ParseDirtyDuration
    \/ PassOverDirtyDuration

DirtySpec == DirtyInit /\ [][DirtyNext]_vars

(***************************************************************************)
(* QueryBuilder and Query (filmweb/query.rs).  A String is the sequence of *)
(* its pieces: the literal pieces of the format strings, and one piece per *)
(* character of whatever is formatted into them.                           *)
(***************************************************************************)
\* The discriminants of enum FilmwebGenre.
FilmwebGenre_discriminants ==
    { <<"Action", 28>>, <<"AdultAnimation", 77>>, <<"Adventure", 20>>,
      <<"Animation", 2>>, <<"Anime", 66>>, <<"Biblical", 55>>,
      <<"Biography", 3>>, <<"Catastrophe", 40>>, <<"Children", 4>>,
      <<"Christmas", 78>>, <<"Comedy", 13>>, <<"Costume", 14>>,
      <<"CourtroomDrama", 65>>, <<"Crime", 15>>, <<"DarkComedy", 47>>,
      <<"Documentary", 5>>, <<"Documented", 57>>, <<"Drama", 6>>,
      <<"Erotical", 7>>, <<"FairyTale", 42>>, <<"Family", 8>>,
      <<"Fantasy", 9>>, <<"FictionalizedDocumentary", 70>>,
      <<"FilmNoir", 27>>, <<"Gangster", 53>>, <<"Grotesque", 60>>,
      <<"Historical", 11>>, <<"HistoricalDrama", 59>>, <<"Horror", 12>>,
      <<"MartialArt", 72>>, <<"Melodrama", 16>>, <<"Moral", 19>>,
      <<"Musical", 17>>, <<"Nature", 73>>, <<"Poetic", 62>>,
      <<"Political", 43>>, <<"Propaganda", 76>>, <<"Psychological", 38>>,
      <<"Religious", 51>>, <<"Romance", 32>>, <<"RomanticComedy", 30>>,
      <<"Satire", 39>>, <<"SciFi", 33>>, <<"Sensational", 22>>,
      <<"Shiver", 46>>, <<"Short", 50>>, <<"Silent", 67>>,
      <<"Sports", 61>>, <<"Spy", 63>>, <<"Surrealistic", 10>>,
      <<"Thriller", 24>>, <<"TrueCrime", 80>>, <<"War", 26>>,
      <<"MoralComedy", 37>>, <<"Western", 25>>, <<"XXX", 71>>,
      <<"CriminalComedy", 58>>, <<"Musically", 44>>, <<"Youth", 41>> }

\* genre as u8
as_u8(genre) == (CHOOSE e \in FilmwebGenre_discriminants : e[1] = genre)[2]

\* char::from_digit(d, 10)
from_digit(d) == CHOOSE c \in Digits : to_digit(c) = d

\* format!("{}", n) of an unsigned integer: its decimal digits.
RECURSIVE to_string(_)
to_string(n) ==
    IF n < 10 THEN <<from_digit(n)>>
    ELSE to_string(n \div 10) \o <<from_digit(n % 10)>>

\* QueryBuilder::new()
QueryBuilder_new == [year |-> None, genres |-> None]

\* QueryBuilder::year(self, year)
QueryBuilder_year(self, year_) == [self EXCEPT !.year = Some(year_)]

\* QueryBuilder::genres(self, genres)
QueryBuilder_genres(self, genres_) == [self EXCEPT !.genres = Some(genres_)]

\* let year_param = match self.year { .. }
year_param(self) ==
    IF self.year = None
    THEN <<"startYear=">> \o to_string(1890) \o <<"&endYear=">> \o to_string(2060)
    ELSE IF Unwrap(self.year)[1] = "OneYear"
    THEN <<"startYear=">> \o to_string(Unwrap(self.year)[2])
            \o <<"&endYear=">> \o to_string(Unwrap(self.year)[2])
    ELSE <<"startYear=">> \o to_string(Unwrap(self.year)[2])
            \o <<"&endYear=">> \o to_string(Unwrap(self.year)[3])

\* for genre in .. { genres_param.push_str(&format!("{},", genre as u8)); }
RECURSIVE push_genres(_, _)
push_genres(genres_param_, genres_) ==
    IF genres_ = <<>> THEN genres_param_
    ELSE push_genres(genres_param_ \o to_string(as_u8(Head(genres_))) \o <<",">>,
                     Tail(genres_))

\* The genres parameter with the ',' after its last code left in.
genres_param_untrimmed(self) ==
    IF self.genres = None THEN Returns(<<>>)
    ELSE Returns(<<"&genres=">> \o push_genres(<<>>, Unwrap(self.genres)))

\* let genres_param = { .. }: nothing without genres, otherwise the codes
\* pushed and &genres_param[..len - 1]; on a list of no genre len - 1
\* overflows or the slice is out of range, a panic in every build.
genres_param(self) ==
    IF self.genres = None THEN Returns(<<>>)
    ELSE LET pushed == push_genres(<<>>, Unwrap(self.genres))
         IN  IF pushed = <<>> THEN Panic
             ELSE Returns(<<"&genres=">> \o SubSeq(pushed, 1, Len(pushed) - 1))

\* QueryBuilder::build(self) -> Query
build(self) ==
    IF genres_param(self) = Panic THEN Panic
    ELSE Returns(<<"https://www.filmweb.pl/api/v1/films/search?">>
                    \o year_param(self) \o genres_param(self)[2]
                    \o <<"&connective=OR">>)

\* Query::url(&self, page: u16) -> String
url(self, page) == self \o <<"&page=">> \o to_string(page)

\* The years, genres and pages of the queries.
QueryYears == {OneYear(2021), Range(2010, 2017)}

QueryGenres == {"Thriller", "Psychological", "Comedy", "Drama", "SciFi"}

QueryGenreLists == UNION {[1..n -> QueryGenres] : n \in 0..MaxGenres}

QueryPages == {1, 10}

QueryInit ==
    /\ NoTitles
    /\ input \in [year : {None} \cup {Some(y) : y \in QueryYears},
                  genres : {None} \cup {Some(g) : g \in QueryGenreLists},
                  page : QueryPages]
    /\ output = None

\* The builder with what the caller sets of it.
QueryBuilder_of(in) ==
    LET with_year == IF in.year = None THEN QueryBuilder_new
                     ELSE QueryBuilder_year(QueryBuilder_new, Unwrap(in.year))
    IN  IF in.genres = None THEN with_year
        ELSE QueryBuilder_genres(with_year, Unwrap(in.genres))

\* QueryBuilder::new().year(..).genres(..).build().url(page)
BuildUrl ==
    /\ output = None
    /\ LET query == build(QueryBuilder_of(input))
       IN  output' = Some(IF query = Panic THEN Panic
                          ELSE Returns(url(query[2], input.page)))
    /\ UNCHANGED <<title_vars, input>>

QueryNext == BuildUrl

QuerySpec == QueryInit /\ [][QueryNext]_vars

(***************************************************************************)
(* FwUserCounts (filmweb/auth.rs): the numbers of pages of the lists of a  *)
(* user.  The counts are u16.                                              *)
(***************************************************************************)
\* Titles per page: self.movies / 25 + 1
PageSize == 25

\* u8::MAX
U8Max == 255

\* (expression of u16) as u8: the low eight bits.
u16_as_u8(n) == n % (U8Max + 1)

\* pub const fn movies_pages(&self) -> u8
movies_pages(self) == u16_as_u8(self.movies \div PageSize + 1)

\* pub const fn shows_pages(&self) -> u8
shows_pages(self) == u16_as_u8(self.shows \div PageSize + 1)

\* pub const fn watchlist_pages(&self) -> u8
watchlist_pages(self) == u16_as_u8(self.watchlist \div PageSize + 1)

\* The counts tried: the first and the last count of every page of
\* PageSize titles, over the whole of u16.
Counts ==
    {c \in 0..U16Max : c % PageSize \in {0, PageSize - 1} \/ c = U16Max}

\* struct FwUserCounts { movies, shows, watchlist }, with equal counts.
FwUserCounts == {[movies |-> c, shows |-> c, watchlist |-> c] : c \in Counts}

PagesInit ==
    /\ NoTitles
    /\ input \in {"movies_pages", "shows_pages", "watchlist_pages"} \X FwUserCounts
    /\ output = None

\* counts.movies_pages()
MoviesPages ==
    /\ input[1] = "movies_pages"
    /\ output = None
    /\ output' = Some(movies_pages(input[2]))
    /\ UNCHANGED <<title_vars, input>>

\* counts.shows_pages()
ShowsPages ==
    /\ input[1] = "shows_pages"
    /\ output = None
    /\ output' = Some(shows_pages(input[2]))
    /\ UNCHANGED <<title_vars, input>>

\* counts.watchlist_pages()
WatchlistPages ==
    /\ input[1] = "watchlist_pages"
    /\ output = None
    /\ output' = Some(watchlist_pages(input[2]))
    /\ UNCHANGED <<title_vars, input>>

PagesNext ==
    \/ MoviesPages
    \/ ShowsPages
    \/ WatchlistPages

PagesSpec == PagesInit /\ [][PagesNext]_vars

(***************************************************************************)
(* FilmwebUser::scrape and FwRatedTitle::to_csv_imdbv3_tmdb_files          *)
(* (filmweb/auth.rs), for one votebox of a user page: the rating and the   *)
(* two flags scrape gives the title, and the file the title is written to. *)
(* output is the sequence of what the two functions gave so far.           *)
(***************************************************************************)
\* enum UserPage, without the page number.
UserPages == {"RatedFilms", "RatedShows", "Watchlist"}

\* struct FwApiDetails as far as scrape reads it.
FwApiDetails == [rate : 0..U8Max, favorite : BOOLEAN]

\* What the request of the vote details gives: the details, a body that is
\* no FwApiDetails, a request that failed.
ApiResponses ==
    {Ok(v) : v \in FwApiDetails} \cup {Err("Json"), Err("ReqwestError")}

\* The watchlist page giving a title that is neither rated nor watchlisted.
rated_title_unlisted(page, response) ==
    IF page = "Watchlist"
    THEN Ok([rating |-> None, is_favorited |-> FALSE, is_watchlisted |-> FALSE])
    ELSE IF response = Err("ReqwestError") THEN Err("ReqwestError")
    ELSE IF ~IsOk(response) THEN Err("InvalidJwt")
    ELSE Ok([rating |-> Some(response[2].rate),
             is_favorited |-> response[2].favorite, is_watchlisted |-> FALSE])

\* let (rating, is_favorited, is_watchlisted) = { .. }; FwRatedTitle::new(..):
\* the rated title scrape makes of a votebox of the page, response being
\* the answer to the request a rated page makes; or the error scrape
\* returns.
rated_title(page, response) ==
    IF page = "Watchlist"
    THEN Ok([rating |-> None, is_favorited |-> FALSE, is_watchlisted |-> TRUE])
    ELSE IF response = Err("ReqwestError") THEN Err("ReqwestError")
    ELSE IF ~IsOk(response) THEN Err("InvalidJwt")
    ELSE Ok([rating |-> Some(response[2].rate),
             is_favorited |-> response[2].favorite, is_watchlisted |-> FALSE])

\* struct ExportFiles, each file by the records written to it.
ExportFiles_new == [favorited |-> <<>>, want2see |-> <<>>, generic |-> <<>>]

\* panic!("It can't be possible")
CantBePossible == <<"Panic", "It can't be possible">>

\* self.title.imdb_data().unwrap() on a title without IMDb data.
UnwrapOnNone == <<"Panic", "called Option::unwrap() on a None value">>

\* to_csv_imdbv3_tmdb_files(&self, files): the files afterwards, or the
\* panic.  imdb is the imdb_data of the title; writing is taken to succeed.
to_csv_imdbv3_tmdb_files(self, imdb, files) ==
    IF imdb = None THEN UnwrapOnNone
    ELSE LET fields == <<Unwrap(imdb),
                         IF self.rating = None THEN <<"WATCHLIST">>
                         ELSE to_string(Unwrap(self.rating))>>
         IN  IF self.is_favorited /\ ~self.is_watchlisted /\ self.rating # None
             THEN Returns([files EXCEPT !.favorited = Append(@, fields)])
             ELSE IF ~self.is_favorited /\ self.is_watchlisted /\ self.rating = None
             THEN Returns([files EXCEPT !.want2see = Append(@, fields)])
             ELSE IF ~self.is_favorited /\ ~self.is_watchlisted /\ self.rating # None
             THEN Returns([files EXCEPT !.generic = Append(@, fields)])
             ELSE CantBePossible

ScrapeInit ==
    /\ NoTitles
    /\ input \in [page : UserPages, response : ApiResponses,
                  imdb_data : {None, Some("tt0371257")}]
    /\ output = <<>>

\* user.scrape(page), one votebox on the page.
Scrape ==
    /\ output = <<>>
    /\ output' = <<rated_title(input.page, input.response)>>
    /\ UNCHANGED <<title_vars, input>>

\* rated_title.to_csv_imdbv3_tmdb_files(&mut files) on the title scrape
\* gave, after the lookup that left input.imdb_data in it.
ToCsv ==
    /\ Len(output) = 1
    /\ IsOk(output[1])
    /\ output' = Append(output,
                        to_csv_imdbv3_tmdb_files(output[1][2], input.imdb_data,
                                                 ExportFiles_new))
    /\ UNCHANGED <<title_vars, input>>

ScrapeNext ==
    \/ Scrape
    \/ ToCsv

ScrapeSpec == ScrapeInit /\ [][ScrapeNext]_vars

(***************************************************************************)
(* Properties of the lookup.                                               *)
(***************************************************************************)

\* C1: whenever the lookup ends resolved, the IMDb title it took from the
\* last search passes the Match Validator for the Filmweb title (start years
\* within one year, durations similar), and no title the validator rejects
\* is ever stored in imdb_data.
C1_ResolvedIsValidated ==
    \A t \in DOMAIN pc :
        /\ Resolved(t) => Validates(t, Last(calls[t]).ret[2])
        /\ imdb_data[t] # None => Validates(t, Unwrap(imdb_data[t]))

\* C2: a title holds at most one link and, once imdb_data is set, no later
\* lookup replaces it by a different IMDb title.
C2_LinkNeverReplaced ==
    [][\A t \in DOMAIN pc :
          (imdb_data[t] # None /\ imdb_data'[t] # None)
              => imdb_data'[t] = imdb_data[t]]_vars

\* C3 as stated: the lookup ends unresolved only with its queue exhausted,
\* every entry that was queued when it began having had a structured and a
\* free-text search without a match.
C3_UnresolvedOnlyWhenExhausted ==
    \A t \in DOMAIN pc :
        Unresolved(t) =>
            /\ alter_titles[t] = Some(PQNew)
            /\ \A e \in Unwrap(queue0[t]) :
                  /\ SearchedInVain(t, e, "advanced_search")
                  /\ SearchedInVain(t, e, "search")

\* C3 (amended): the lookup ends unresolved only when every entry of
\* non-zero score that was queued when it began has been popped and has had
\* a structured and a free-text search without a match; the loop ended
\* because pop found the queue empty or handed out an entry of score 0,
\* which is not searched, and only entries of score 0 are left queued.
C3_UnresolvedOnlyWhenScoredExhausted ==
    \A t \in DOMAIN pc :
        Unresolved(t) =>
            /\ \A e \in Unwrap(queue0[t]) :
                  e.priority > 0 =>
                      /\ e \notin Unwrap(alter_titles[t])
                      /\ SearchedInVain(t, e, "advanced_search")
                      /\ SearchedInVain(t, e, "search")
            /\ \A e \in Unwrap(alter_titles[t]) : e.priority = 0
            /\ \/ alternate_title[t] = None /\ alter_titles[t] = Some(PQNew)
               \/ alternate_title[t] # None /\ Unwrap(alternate_title[t]).priority = 0

\* A lookup ended unresolved on an entry of score 0, after an entry of
\* non-zero score had failed both searches, with an entry still queued.
C3_Witness ==
    \E t \in DOMAIN pc :
        /\ Unresolved(t)
        /\ Len(calls[t]) >= 2
        /\ alternate_title[t] # None
        /\ Unwrap(alter_titles[t]) # PQNew

\* C4: no backtracking.  A query that yields a title is the last query of
\* its lookup: the lookup has returned resolved, the stored link is that
\* title (until the caller takes it), and no entry still queued has been
\* searched.  When the first query, the structured search of the
\* highest-ranked entry, yields a title, it is the only query of the lookup
\* and the queue holds every other entry unsearched.
C4_NoBacktracking ==
    \A t \in DOMAIN pc :
        /\ \A i \in 1..Len(calls[t]) :
              /\ IsOk(calls[t][i].ret) =>
                    /\ i = Len(calls[t])
                    /\ Resolved(t)
                    /\ imdb_data[t] \in {None, Some(calls[t][i].ret[2])}
              /\ calls[t][i].alt \notin Unwrap(alter_titles[t])
        /\ (calls[t] # <<>> /\ IsOk(calls[t][1].ret)) =>
              /\ Len(calls[t]) = 1
              /\ calls[t][1].fn = "advanced_search"
              /\ \A e \in Unwrap(queue0[t]) : e.priority <= calls[t][1].alt.priority
              /\ alter_titles[t] = Some(Unwrap(queue0[t]) \ {calls[t][1].alt})

\* The structured search of the first entry matched while a second entry
\* was queued: one query, the second entry still queued.
C4_Witness ==
    \E t \in DOMAIN pc :
        /\ Resolved(t)
        /\ Len(calls[t]) = 1
        /\ calls[t][1].fn = "advanced_search"
        /\ Unwrap(alter_titles[t]) # PQNew
        /\ \E e \in Unwrap(alter_titles[t]) : e.priority > 0

\* C5: a lookup started on an empty queue issues no query and returns
\* unresolved from its first pop.
C5_EmptyQueueNoCalls ==
    \A t \in DOMAIN pc :
        queue0[t] = Some(PQNew) =>
            /\ calls[t] = <<>>
            /\ pc[t] \in {"idle", "pop"}
            /\ result[t] \in {None, Some(Err("ZeroResults"))}
            /\ pops[t] = 0

\* A lookup that began with an empty queue has returned unresolved.
C5_Witness ==
    \E t \in DOMAIN pc : queue0[t] = Some(PQNew) /\ Unresolved(t)

\* C6: per popped entry the structured search comes first and the free-text
\* search of the same title follows only when the structured search gave no
\* title; no free-text search lacks that structured search before it.
C6_StructuredBeforeFreeText ==
    \A t \in DOMAIN pc :
        \A i \in 1..Len(calls[t]) :
            /\ calls[t][i].fn = "search" =>
                  /\ i > 1
                  /\ calls[t][i - 1].fn = "advanced_search"
                  /\ calls[t][i - 1].alt = calls[t][i].alt
                  /\ calls[t][i - 1].query[1] = calls[t][i].query[1]
                  /\ ~IsOk(calls[t][i - 1].ret)
            /\ calls[t][i].fn = "advanced_search" =>
                  i = 1 \/ (calls[t][i - 1].fn = "search"
                            /\ calls[t][i - 1].alt # calls[t][i].alt)

\* A free-text search has been issued.
C6_Witness ==
    \E t \in DOMAIN pc :
        \E i \in 1..Len(calls[t]) : calls[t][i].fn = "search"

\* C7: a failed request counts as "no results".  Two lookups that differ
\* only in failed requests answered in place of "no results" make the same
\* queries in the same order and return the same result.  The only error
\* set_imdb_data_with_lookup returns is ZeroResults, and a lookup whose
\* queries all failed or found nothing returns it.
C7_ErrorIsNotFound ==
    /\ \A t \in DOMAIN pc :
          /\ result[t] \in {None, Some(Ok(<<>>)), Some(Err("ZeroResults"))}
          /\ (Returned(t) /\ \A i \in 1..Len(calls[t]) : ~IsOk(calls[t][i].ret))
                => Unresolved(t)
    /\ \A k \in 1..Len(calls[2]) :
          /\ k <= Len(calls[1])
          /\ calls[2][k].fn = calls[1][k].fn
          /\ calls[2][k].query = calls[1][k].query
    /\ (FirstRunOver /\ (Returned(2) \/ pc[2] = "panicked")) =>
          /\ Len(calls[2]) = Len(calls[1])
          /\ result[2] = result[1]
          /\ imdb_data[2] = imdb_data[1]
          /\ alter_titles[2] = alter_titles[1]

\* Both lookups returned unresolved after two queries or more, a query that
\* found nothing in the first being a failed request in the second.
C7_Witness ==
    /\ Unresolved(1)
    /\ Unresolved(2)
    /\ Len(calls[2]) >= 2
    /\ \E k \in 1..Len(calls[2]) :
          /\ calls[1][k].ret = Err("NoResults")
          /\ calls[2][k].ret = Err("NetworkError")

\* C8 (bound): a lookup on a queue of n entries pops at most n entries and
\* issues at most 2 * n queries.
LookupBound(t) ==
    alter_titles[t] # None =>
        /\ pops[t] <= Cardinality(Unwrap(queue0[t]))
        /\ Len(calls[t]) <= 2 * pops[t]

\* C8: the lookup always terminates: within the bound above, every lookup
\* on a title that has a queue returns, whatever IMDb answers.
C8_LookupTerminates ==
    /\ [](\A t \in FwTitleIds : LookupBound(t))
    /\ \A t \in FwTitleIds :
          (Running(t) /\ alter_titles[t] # None) ~> Returned(t)

\* A lookup returned after popping its whole queue and two queries per entry.
C8_Witness ==
    \E t \in DOMAIN pc :
        /\ Returned(t)
        /\ Cardinality(Unwrap(queue0[t])) >= 2
        /\ pops[t] = Cardinality(Unwrap(queue0[t]))
        /\ Len(calls[t]) = 2 * pops[t]

\* C9: a popped entry is never met again.  Every pop takes exactly one
\* entry out of the queue, nothing is put back, no entry is popped twice,
\* and a query is only ever made for the entry just popped, once per kind
\* of search, over all the lookups of the title.
C9_NeverRevisits ==
    \A t \in DOMAIN pc :
        alter_titles[t] # None =>
            /\ \A i, j \in 1..Len(popped[t]) : popped[t][i] = popped[t][j] => i = j
            /\ \A i \in 1..Len(popped[t]) : popped[t][i] \notin Unwrap(alter_titles[t])
            /\ Cardinality(Unwrap(alter_titles[t])) + Len(popped[t])
                  = Cardinality(Unwrap(scraped[t]))
            /\ Cardinality(Unwrap(alter_titles[t])) + pops[t]
                  = Cardinality(Unwrap(queue0[t]))
            /\ \A i \in 1..Len(calls[t]) :
                  /\ \E k \in (Len(popped[t]) - pops[t] + 1)..Len(popped[t]) :
                        popped[t][k] = calls[t][i].alt
                  /\ \A j \in 1..Len(calls[t]) :
                        (calls[t][j].alt = calls[t][i].alt
                         /\ calls[t][j].fn = calls[t][i].fn) => i = j

\* A second lookup of a title is searching, after the first one popped
\* part of the queue.
C9_Witness ==
    \E t \in DOMAIN pc :
        /\ queue0[t] # scraped[t]
        /\ calls[t] # <<>>
        /\ Len(popped[t]) > pops[t]

\* C10: entries are handled in rank order.  The scores of successive pops
\* never increase, and no query for an entry comes after a query for an
\* entry of lower score.
C10_RankOrder ==
    \A t \in DOMAIN pc :
        /\ \A i, j \in 1..Len(popped[t]) :
              i < j => popped[t][i].priority >= popped[t][j].priority
        /\ \A i, j \in 1..Len(calls[t]) :
              i < j => calls[t][i].alt.priority >= calls[t][j].alt.priority
        /\ \A i \in 1..Len(popped[t]) :
              popped[t][i].priority = score_title(popped[t][i].item.language)

\* Entries of three different scores were searched one after the other.
C10_Witness ==
    \E t \in DOMAIN pc :
        /\ Len(calls[t]) >= 5
        /\ calls[t][1].alt.priority > calls[t][3].alt.priority
        /\ calls[t][3].alt.priority > calls[t][5].alt.priority

\* Everything the model keeps for title t.
Local(t) ==
    <<year[t], duration[t], alter_titles[t], imdb_data[t], pc[t],
      alternate_title[t], result[t], calls[t], popped[t], pops[t], queue0[t],
      scraped[t], client[t]>>

\* The entries of sequence s, as a set.
Range_(s) == {s[i] : i \in 1..Len(s)}

\* Title t has only ever popped and searched entries of the queue scraped
\* for it, its queue is that queue less its own pops, and its link is the
\* title its own last query returned.
OwnStateOnly(t) ==
    alter_titles[t] # None =>
        /\ Range_(popped[t]) \subseteq Unwrap(scraped[t])
        /\ Unwrap(alter_titles[t]) = Unwrap(scraped[t]) \ Range_(popped[t])
        /\ alternate_title[t] # None => Unwrap(alternate_title[t]) \in Range_(popped[t])
        /\ \A i \in 1..Len(calls[t]) : calls[t][i].alt \in Range_(popped[t])
        /\ imdb_data[t] # None =>
              /\ Resolved(t)
              /\ imdb_data[t] = Some(Last(calls[t]).ret[2])

\* The query and its answer, without the client that carried it.
Exchange(call) == <<call.fn, call.alt, call.query, call.ret>>

\* C11: lookups of distinct titles running concurrently share no mutable
\* state.  Every step changes the state of one title only; a lookup pops
\* only the queue of its own title and writes only its own link; and the
\* lookup of title 2, interleaved in any way with that of title 3 and each
\* with any client of the pool, makes the queries title 1 made alone, in
\* the same order, and ends with the same result, link and queue.
C11_ConcurrentLookupsIndependent ==
    /\ [][\E t \in DOMAIN pc : \A u \in DOMAIN pc \ {t} : Local(u)' = Local(u)]_vars
    /\ [](\A t \in DOMAIN pc : OwnStateOnly(t))
    /\ [](\A k \in 1..Len(calls[2]) :
             k <= Len(calls[1]) /\ Exchange(calls[2][k]) = Exchange(calls[1][k]))
    /\ []((FirstRunOver /\ (Returned(2) \/ pc[2] = "panicked")) =>
             /\ Len(calls[2]) = Len(calls[1])
             /\ result[2] = result[1]
             /\ imdb_data[2] = imdb_data[1]
             /\ alter_titles[2] = alter_titles[1])

\* The lookups of titles 2 and 3, scraped from different pages and using
\* different clients, are both under way, each after two queries or more.
C11_Witness ==
    /\ Running(2)
    /\ Running(3)
    /\ Len(calls[2]) >= 2
    /\ Len(calls[3]) >= 2
    /\ scraped[2] # scraped[3]
    /\ client[2] # client[3]
    /\ client[2] # Some(calls[1][1].client)

(***************************************************************************)
(* Properties of the duration check and of the year check.                 *)
(***************************************************************************)

\* C12: the duration check is one-sided.  With the title's duration R
\* present, the check fails exactly when R is at or below the lower bound
\* of the band and passes in every other case, a duration above the upper
\* bound included.  Against 100 minutes: 90 passes, 85 and 80 fail, 200
\* passes.
C12_RejectsOnlyAtOrBelowLower ==
    \A t \in DOMAIN pc :
        (output # None /\ duration[t] # None) =>
            LET R == Unwrap(duration[t])
                upper == duration_band(R, input)[1]
                lower == duration_band(R, input)[2]
            IN  /\ Unwrap(output) = ~(R * 100 <= lower)
                /\ R * 100 > upper => Unwrap(output) = TRUE
                /\ input = 100 =>
                      /\ R = 90 => Unwrap(output) = TRUE
                      /\ R \in {80, 85} => Unwrap(output) = FALSE
                      /\ R = 200 => Unwrap(output) = TRUE

\* A duration of 200 minutes passed the check against 100 minutes.
C12_Witness ==
    \E t \in DOMAIN pc :
        duration[t] = Some(200) /\ input = 100 /\ output = Some(TRUE)

C14_LenientIfEitherShort ==
    \A t \in DOMAIN pc :
        (output # None /\ duration[t] # None) =>
            LET R == Unwrap(duration[t])
                C == input
            IN  (C <= 60 \/ R <= 60) => Unwrap(output) = (R * 100 > C * 75)

\* C15: a title without a duration passes the check against every duration.
C15_NoDurationAlwaysSimilar ==
    \A t \in DOMAIN pc :
        (output # None /\ duration[t] = None) => output = Some(TRUE)

\* A title without a duration was checked against a duration of 0 minutes.
C15_Witness ==
    \E t \in DOMAIN pc : duration[t] = None /\ input = 0 /\ output = Some(TRUE)

\* C16: a title is only accepted when its start year and the start year of
\* the Filmweb title differ by at most one: no link is stored whose start
\* year is two years or more away.
C16_YearWithinOne ==
    \A t \in DOMAIN pc :
        imdb_data[t] # None =>
            YearStart(year[t]) - YearStart(Unwrap(imdb_data[t]).year) \in -1..1

(***************************************************************************)
(* Properties of score_title.                                              *)
(***************************************************************************)
\* Label l has word w / has the words v, w next to each other.
HasWord(l, w) == \E i \in 1..Len(l) : l[i] = w
HasWords(l, v, w) == \E i \in 1..(Len(l) - 1) : l[i] = v /\ l[i + 1] = w

\* The rule of each rank applies to label l.
RuleApplies(l) ==
    [r \in 0..10 |->
        CASE r = 10 -> HasWord(l, "USA") \/ HasWord(l, "angielski")
          [] r = 9 -> HasWord(l, "oryginalny")
          [] r = 8 -> HasWord(l, "glowny")
          [] r = 7 -> HasWords(l, "alternatywna", "pisownia")
          [] r = 6 -> HasWords(l, "inny", "tytul")
          [] r = 5 -> HasWord(l, "Polska")
          [] OTHER -> FALSE]

\* C17: score_title gives a label the rank of the first rule that applies
\* to it, the rules being tried from rank 10 down to rank 5, and 0 when
\* none applies; a label to which several rules apply gets the rank of the
\* earliest, and every rank lies in 0..10.
C17_FirstRuleWins ==
    output # None =>
        LET rank == Unwrap(output)
            applying == {r \in 5..10 : RuleApplies(input)[r]}
        IN  /\ rank \in 0..10
            /\ applying = {} => rank = 0
            /\ applying # {} =>
                  /\ rank \in applying
                  /\ \A r \in applying : r <= rank

\* The label "Polska tytul glowny", to which the rules of rank 8 and of
\* rank 5 apply, got rank 8.
C17_Witness ==
    /\ input = <<"Polska", "tytul", "glowny">>
    /\ output = Some(8)

(***************************************************************************)
(* Properties of the genre functions.                                      *)
(***************************************************************************)
\* The values of Genre that Genre::try_from gives.
SharedGenres == {arm[2] : arm \in GenreArms}

\* The Genre of a Filmweb genre that has one.
GenreOf(value) == (CHOOSE arm \in GenreArms : value \in arm[1])[2]

\* The number of Filmweb genres among the first i of list l that have a Genre.
Mapped(l, i) == Cardinality({j \in 1..i : l[j] \notin UnmappedGenres})

\* C18: the bulk projection of Title::genres never fails.  For every list
\* of Filmweb genres it returns a list of Genre values: the Genre of every
\* Filmweb genre that has one, in the order of the list, the Filmweb genres
\* without a Genre being left out, so that a list of such genres alone
\* gives the empty list; on its own, a Filmweb genre without a Genre
\* projects to the error that the bulk projection drops.
C18_BulkProjectionNeverFails ==
    /\ (input[1] = "genres" /\ output # None) =>
          LET l == input[2]
              out == Unwrap(output)
          IN  /\ \A k \in 1..Len(out) : out[k] \in SharedGenres
              /\ Len(out) = Mapped(l, Len(l))
              /\ \A i \in 1..Len(l) :
                    l[i] \notin UnmappedGenres => out[Mapped(l, i)] = GenreOf(l[i])
              /\ (\A i \in 1..Len(l) : l[i] \in UnmappedGenres) => out = <<>>
    /\ (input[1] = "try_from" /\ output # None /\ input[2] \in UnmappedGenres) =>
          output = Some(Err("ParseGenreError"))

\* The list "Satire, Comedy" gave the list "Comedy".
C18_Witness ==
    /\ input = <<"genres", <<"Satire", "Comedy">>>>
    /\ output = Some(<<"Comedy">>)

\* C19: the projection of Filmweb genres on Genre is many-to-one and a
\* function.  Every Filmweb genre belongs to exactly one arm of the match,
\* so it projects to exactly one Genre or to the error; Documentary,
\* Documented, Biography, Nature and FictionalizedDocumentary all project
\* to Documentary; 18 values of Genre are reached.
C19_ManyToOneProjection ==
    (input[1] = "try_from" /\ output # None) =>
        LET value == input[2]
        IN  /\ Cardinality({arm \in GenreArms : value \in arm[1]}
                            \cup {u \in {UnmappedGenres} : value \in u}) = 1
            /\ output \in {Some(Ok(g)) : g \in SharedGenres}
                             \cup {Some(Err("ParseGenreError"))}
            /\ value \in UnmappedGenres <=> ~IsOk(Unwrap(output))
            /\ value \notin UnmappedGenres => output = Some(Ok(GenreOf(value)))
            /\ value \in {"Documentary", "Documented", "Biography", "Nature",
                          "FictionalizedDocumentary"}
                  => output = Some(Ok("Documentary"))
            /\ Cardinality({try_from(w)[2] :
                               w \in {w \in FilmwebGenres : IsOk(try_from(w))}}) = 18

\* Nature was projected to Documentary.
C19_Witness ==
    /\ input = <<"try_from", "Nature">>
    /\ output = Some(Ok("Documentary"))

\* C20: the lookup of a single label.  A label whose text, trimmed and in
\* lower case, is no key of the table makes the lookup fail: it panics, so
\* that control goes back to the callers without any genre, and no default
\* genre is ever returned.  A label whose text is a key of the table, in
\* any letter case and with white space around it, gives the genre of that
\* key.
C20_UnknownLabelFails ==
    (input[1] = "from" /\ output # None) =>
        LET value == input[2]
            entries == {e \in STR_TO_GENRE_entries : e[1] = value.text}
        IN  /\ entries = {} => output = Some(Panic)
            /\ \A e \in entries : output = Some(Returns(e[2]))

\* The label " Polityczny" made the lookup panic.
C20_Witness ==
    /\ input = <<"from", String(1, "polityczny", "Capitalized", 0)>>
    /\ output = Some(Panic)

(***************************************************************************)
(* Properties of the queries, of the score 0 and of a failed lookup.       *)
(***************************************************************************)

\* C22 as stated: the free-text search is given the name of the alternate title
\* together with the year as the title writes it, a single year or
\* "start-end" for a range, and the structured search is given the name,
\* the start year and the start year again.
C22_QueriesCarryTheYear ==
    \A t \in DOMAIN pc :
        \A i \in 1..Len(calls[t]) :
            LET c == calls[t][i]
            IN  /\ c.fn = "search" => c.query = <<c.alt.item.title>> \o fmt(year[t])
                /\ c.fn = "advanced_search"
                      => c.query = <<c.alt.item.title, YearStart(year[t]),
                                  YearStart(year[t])>>

\* C22 (amended): both searches are given the name of the alternate title
\* and the start of the year of the title, the end of a range reaching
\* neither: the free-text search the name and the start year, the
\* structured search the name, the start year and the start year again.
C22_QueriesCarryTheStartYear ==
    \A t \in DOMAIN pc :
        \A i \in 1..Len(calls[t]) :
            LET c == calls[t][i]
                start == year[t][2]
            IN  /\ c.fn = "search" => c.query = <<c.alt.item.title, start>>
                /\ c.fn = "advanced_search"
                      => c.query = <<c.alt.item.title, start, start>>

\* The free-text search was made for a title of the years 2005 to 2007.
C22_Witness ==
    \E t \in DOMAIN pc :
        /\ year[t] = Range(2005, 2007)
        /\ calls[t] # <<>>
        /\ Last(calls[t]).fn = "search"
        /\ Last(calls[t]).query = <<"Zostan", 2005>>

\* The entries of a queue have the score 0, all of them.
AllZero(q) == \A e \in q : e.priority = 0

\* C25: no search is ever made for an entry of score 0.  When pop hands
\* out an entry of score 0 the loop stops at once: the lookup has returned
\* ZeroResults without a search for that entry, and what is left in the
\* queue, entries of score 0 only, stays there unsearched.
C25_ScoreZeroNeverSearched ==
    \A t \in DOMAIN pc :
        /\ \A i \in 1..Len(calls[t]) : calls[t][i].alt.priority > 0
        /\ (alternate_title[t] # None /\ Unwrap(alternate_title[t]).priority = 0) =>
              /\ Unresolved(t)
              /\ result[t] = Some(Err("ZeroResults"))
              /\ AllZero(Unwrap(alter_titles[t]))
              /\ \A e \in Unwrap(alter_titles[t]) \cup {Unwrap(alternate_title[t])} :
                    \A i \in 1..Len(calls[t]) : calls[t][i].alt # e

\* A lookup popped an entry of score 0 first and returned without a search,
\* another entry of score 0 still queued.
C25_Witness ==
    \E t \in DOMAIN pc :
        /\ Unresolved(t)
        /\ alternate_title[t] # None
        /\ Unwrap(alternate_title[t]).priority = 0
        /\ calls[t] = <<>>
        /\ Unwrap(alter_titles[t]) # PQNew

\* C26: Unresolved is stable.  A lookup that returned Unresolved left only
\* entries of score 0 queued, so the next lookup on the title, which a
\* caller starts from that state, begins with such a queue; and a lookup
\* that began with such a queue makes no search, whatever the searches
\* would answer, and returns Unresolved when it returns.
C26_UnresolvedIsStable ==
    /\ [](\A t \in DOMAIN pc :
            /\ Unresolved(t) => AllZero(Unwrap(alter_titles[t]))
            /\ (queue0[t] # None /\ AllZero(Unwrap(queue0[t]))) =>
                  /\ calls[t] = <<>>
                  /\ Returned(t) => Unresolved(t))
    /\ [][\A t \in DOMAIN pc :
            (Unresolved(t) /\ Running(t)')
                => /\ AllZero(Unwrap(queue0'[t]))
                   /\ calls'[t] = <<>>]_vars

\* Two lookups in a row popped an entry of score 0 each: the earlier one
\* returned Unresolved, as every lookup that pops such an entry does, and
\* the later one has returned Unresolved without a search.
C26_Witness ==
    \E t \in DOMAIN pc :
        /\ Unresolved(t)
        /\ calls[t] = <<>>
        /\ pops[t] = 1
        /\ Len(popped[t]) >= 2
        /\ popped[t][Len(popped[t])].priority = 0
        /\ popped[t][Len(popped[t]) - 1].priority = 0

\* C27: a lookup that fails changes nothing but the queue.  From the call
\* to the failed return imdb_data stays what it was, absent or the link of
\* an earlier lookup, the year and the duration stay, and the queue only
\* loses entries.
C27_FailureKeepsLink ==
    [][\A t \in DOMAIN pc :
          (Running(t) /\ ~Resolved(t)') =>
              /\ imdb_data'[t] = imdb_data[t]
              /\ year'[t] = year[t]
              /\ duration'[t] = duration[t]
              /\ alter_titles[t] # None =>
                    /\ alter_titles'[t] # None
                    /\ Unwrap(alter_titles'[t]) \subseteq Unwrap(alter_titles[t])]_vars

\* A lookup failed on a title that held the link of an earlier lookup, and
\* the link is still there.
C27_Witness ==
    \E t \in DOMAIN pc :
        /\ Unresolved(t)
        /\ imdb_data[t] # None
        /\ queue0[t] # scraped[t]

(***************************************************************************)
(* Properties of parse_my_votebox.                                         *)
(***************************************************************************)
\* The text is a number of u16.
IsU16(s) == IsOk(parse_u16(s))

\* The text before the first c of s, and the text after it.
Before(s, c) ==
    SubSeq(s, 1, (CHOOSE i \in 1..Len(s) :
                     s[i] = c /\ \A j \in 1..(i - 1) : s[j] # c) - 1)

After(s, c) == SubSeq(s, Len(Before(s, c)) + 2, Len(s))

\* A well-formed year text: a year, or two years with a '-' between them,
\* white space aside.
WellFormedYear(s) ==
    \/ IsU16(str_trim(s))
    \/ /\ contains_char(s, "-")
       /\ IsU16(str_trim(Before(s, "-")))
       /\ IsU16(str_trim(After(s, "-")))

\* C21 as stated: a malformed year text or a malformed runtime text makes
\* parse_my_votebox return an error; a votebox with such a text never
\* becomes a record, with a year or a runtime defaulted or left absent.
C21_MalformedIsAnError ==
    (output # None /\ IsOk(Unwrap(output))) =>
        /\ WellFormedYear(input.year)
        /\ IsU16(input.page[2])

\* C21 (amended): a year text without '-' that is no number makes
\* parse_my_votebox return InvalidYear, and a year text with '-' whose
\* part before the first '-' is no number makes it return InvalidId; no
\* record is made of either.  A year text with '-' whose first part is a
\* number gives the range from that number to the number of the second
\* part, and to the first number again when the second part is no number.
\* A runtime text that is no number gives a record without a duration.
C21_MalformedYearStartIsAnError ==
    output # None =>
        LET year_ == str_trim(input.year)
            first == IF contains_char(year_, "-")
                     THEN str_trim(Before(year_, "-")) ELSE year_
            rest == IF contains_char(year_, "-") THEN After(year_, "-") ELSE <<>>
            second == str_trim(IF contains_char(rest, "-")
                               THEN Before(rest, "-") ELSE rest)
        IN  IF ~IsU16(first)
            THEN output = Some(Err(IF contains_char(year_, "-")
                                   THEN "InvalidId" ELSE "InvalidYear"))
            ELSE IF ~IsOk(input.page) THEN output = Some(Err("ReqwestError"))
            ELSE /\ IsOk(Unwrap(output))
                 /\ Unwrap(output)[2].year =
                       IF ~contains_char(year_, "-") THEN OneYear(Decimal(first))
                       ELSE Range(Decimal(first),
                                  IF IsU16(second) THEN Decimal(second)
                                  ELSE Decimal(first))
                 /\ Unwrap(output)[2].duration =
                       IF IsU16(input.page[2])
                       THEN Some(Decimal(input.page[2])) ELSE None

\* The votebox of year "9-x" and data-duration "x" became the record of the
\* years 9 to 9 without a duration.
C21_Witness ==
    /\ input = [year |-> <<"9", "-", "x">>, page |-> Ok(<<"x">>)]
    /\ output = Some(Ok([year |-> Range(9, 9), duration |-> None]))

(***************************************************************************)
(* Properties of parse_dirty_duration.                                     *)
(***************************************************************************)
\* The text is a number: decimal digits, one at least.
IsNumber(s) == s # <<>> /\ \A i \in 1..Len(s) : s[i] \in Digits

\* C24: parse_dirty_duration returns the minutes of every well-formed
\* duration text whose value fits in u16: 60*H for "Hh", M for "Mm" and
\* 60*H + M for "Hh Mm".
C24_MinutesOfWellFormed ==
    output # None =>
        /\ \A N \in {SubSeq(input, 1, Len(input) - 1)} :
              IsNumber(N) =>
                  /\ (input = N \o <<"h">> /\ 60 * Decimal(N) <= U16Max)
                        => output = Some(Ok(60 * Decimal(N)))
                  /\ (input = N \o <<"m">> /\ Decimal(N) <= U16Max)
                        => output = Some(Ok(Decimal(N)))
        /\ \A i \in 1..Len(input) :
              LET H == SubSeq(input, 1, i - 2)
                  M == SubSeq(input, i + 1, Len(input) - 1)
              IN  (/\ input = H \o <<"h", " ">> \o M \o <<"m">>
                   /\ IsNumber(H)
                   /\ IsNumber(M)
                   /\ 60 * Decimal(H) + Decimal(M) <= U16Max)
                      => output = Some(Ok(60 * Decimal(H) + Decimal(M)))

\* C29: on a text is_dirty_duration_ok accepts, parse_dirty_duration
\* returns a u16 or IrrecoverableParseDurationError and never panics.
C29_AcceptedNeverPanics ==
    (is_dirty_duration_ok(input) /\ output # None) => output # Some(Panic)

(***************************************************************************)
(* Properties of the query URL.                                            *)
(***************************************************************************)
\* The codes of the genres with a ',' between each two.
RECURSIVE Codes(_)
Codes(g) ==
    IF Len(g) = 1 THEN to_string(as_u8(g[1]))
    ELSE to_string(as_u8(g[1])) \o <<",">> \o Codes(Tail(g))

\* C23: the URL of a query with a year and with genres g1..gk, k >= 1, or
\* with no genres set, for page p is the search address with
\* startYear=<start>&endYear=<end>, then &genres= and the codes of g1..gk
\* in their order with single commas between them and none after the last
\* (nothing at all when no genres were set), then &connective=OR&page=<p>.
C23_QueryUrl ==
    (/\ output # None
     /\ input.year # None
     /\ input.genres # Some(<<>>)) =>
        LET y == Unwrap(input.year)
            start == y[2]
            end == IF y[1] = "Range" THEN y[3] ELSE y[2]
        IN  output =
              Some(Returns(
                  <<"https://www.filmweb.pl/api/v1/films/search?", "startYear=">>
                      \o to_string(start) \o <<"&endYear=">> \o to_string(end)
                      \o (IF input.genres = None THEN <<>>
                          ELSE <<"&genres=">> \o Codes(Unwrap(input.genres)))
                      \o <<"&connective=OR", "&page=">> \o to_string(input.page)))

\* The query of the years 2010 to 2017 with the genres Thriller and
\* Psychological has for page 10 the URL ending in
\* startYear=2010&endYear=2017&genres=24,38&connective=OR&page=10.
C23_Witness ==
    /\ input = [year |-> Some(Range(2010, 2017)),
                genres |-> Some(<<"Thriller", "Psychological">>), page |-> 10]
    /\ output =
          Some(Returns(<<"https://www.filmweb.pl/api/v1/films/search?",
                         "startYear=", "2", "0", "1", "0",
                         "&endYear=", "2", "0", "1", "7",
                         "&genres=", "2", "4", ",", "3", "8",
                         "&connective=OR", "&page=", "1", "0">>))

(***************************************************************************)
(* Properties of the page counts.                                          *)
(***************************************************************************)
\* C30: for every count c of titles the number of pages p that
\* movies_pages, shows_pages and watchlist_pages return is 1 at least and
\* has 25 * p > c, so that the pages 1..p hold all c titles: it is
\* c / 25 + 1, which the narrowing to u8 leaves as it is.
C30_PagesCoverAllTitles ==
    output # None =>
        LET c == IF input[1] = "movies_pages" THEN input[2].movies
                 ELSE IF input[1] = "shows_pages" THEN input[2].shows
                 ELSE input[2].watchlist
            p == Unwrap(output)
        IN  /\ p >= 1
            /\ 25 * p > c
            /\ p = c \div 25 + 1

====
